---- MODULE Spec2Model ----
(***************************************************************************)
(* Model of src/main.py: the batch pipeline that reads the yearly water-   *)
(* sample files, counts the non-conforming samples per (year, month,       *)
(* commune), and renders a heatmap, a ranked bar chart and a choropleth.   *)
(*                                                                         *)
(* Text is modelled as a sequence of Unicode code points, so that          *)
(* str.upper, unidecode, str.contains and the string ordering used by      *)
(* groupby are computed and not assumed.  A missing cell (NaN, as read_csv *)
(* produces for an empty field) is the empty sequence; a cell of a float   *)
(* column that may hold NaN is <<>> or <<n>>.                              *)
(***************************************************************************)
EXTENDS Integers, Sequences, FiniteSets, TLC

VARIABLES
    pc,              \* position in the program
    year,            \* loop variable of load_and_process_data
    nfiles,          \* number of files read so far
    df_combined,     \* running combined table of load_and_process_data
    nMatching,       \* history: raw rows read so far whose conclusion holds a target phrase
    df_arg,          \* history: the table as it was passed to process_dataframe
    df,              \* the table object passed to process_dataframe
    df_yearly,       \* the value process_dataframe returned
    heatmap_data,    \* the pivoted grid of create_heatmap
    yticklabels,     \* the labels create_heatmap puts on the grid rows, by row position
    commune_counts,  \* the ranked table create_barplot returns
    gdf,             \* the boundary table, names normalised
    merged_df,       \* the joined table of create_choropleth
    top_tier_value,  \* the upper end of the colour range, a float cell in units of 1/QuantDen
    color            \* the position on the colour scale of every joined row

vars == <<pc, year, nfiles, df_combined, nMatching, df_arg, df, df_yearly,
          heatmap_data, yticklabels, commune_counts, gdf, merged_df,
          top_tier_value, color>>

-----------------------------------------------------------------------------
(* Bounds of the model *)

MaxRows == 2       \* rows in one input file
MaxFiles == 2      \* input files in ./dataset over all years
NumYears == 2      \* length of the year range handed to load_and_process_data

(* Program constants *)

FirstYear == 2016  \* range(2016, 2024)
QuantNum == 19     \* quantile(0.95) = 19/20
QuantDen == 20

-----------------------------------------------------------------------------
(* Text *)

NaN == <<>>

\* "Eau d'alimentation non-conforme"
Phrase1 == <<69, 97, 117, 32, 100, 39, 97, 108, 105, 109, 101, 110, 116, 97, 116, 105, 111, 110, 32, 110, 111, 110, 45, 99, 111, 110, 102, 111, 114, 109, 101>>
\* "Eau d'alimentation non conforme"
Phrase2 == <<69, 97, 117, 32, 100, 39, 97, 108, 105, 109, 101, 110, 116, 97, 116, 105, 111, 110, 32, 110, 111, 110, 32, 99, 111, 110, 102, 111, 114, 109, 101>>

\* s holds p as a contiguous substring (re.search of a literal)
Contains(s, p) ==
    \E i \in 1..(Len(s) - Len(p) + 1) : SubSeq(s, i, i + Len(p) - 1) = p

\* Series.str.contains("Phrase1|Phrase2", na=False) on one cell
str_contains(cell) ==
    IF cell = NaN THEN FALSE
    ELSE Contains(cell, Phrase1) \/ Contains(cell, Phrase2)

\* str.upper on one code point (ASCII and Latin-1 letters)
UpperChar(c) ==
    IF c \in 97..122 THEN c - 32
    ELSE IF c \in 224..254 /\ c # 247 THEN c - 32
    ELSE c

\* Series.str.upper on one cell; a missing cell stays missing
str_upper(cell) == [i \in 1..Len(cell) |-> UpperChar(cell[i])]

\* unidecode on one code point: ASCII is kept, an accented Latin-1 letter
\* becomes its base letter
UnidecodeChar(c) ==
    IF c < 128 THEN c
    ELSE IF c \in 192..197 THEN 65
    ELSE IF c = 199 THEN 67
    ELSE IF c \in 200..203 THEN 69
    ELSE IF c \in 204..207 THEN 73
    ELSE IF c \in 210..214 THEN 79
    ELSE IF c \in 217..220 THEN 85
    ELSE IF c \in 224..229 THEN 97
    ELSE IF c = 231 THEN 99
    ELSE IF c \in 232..235 THEN 101
    ELSE IF c \in 236..239 THEN 105
    ELSE IF c \in 242..246 THEN 111
    ELSE IF c \in 249..252 THEN 117
    ELSE c

remove_accents_and_uppercase(str_val) ==
    [i \in 1..Len(str_val) |-> UpperChar(UnidecodeChar(str_val[i]))]

\* Python's str ordering: lexicographic by code point
RECURSIVE StrLess(_, _)
StrLess(a, b) ==
    IF a = <<>> THEN b # <<>>
    ELSE IF b = <<>> THEN FALSE
    ELSE IF a[1] # b[1] THEN a[1] < b[1]
    ELSE StrLess(Tail(a), Tail(b))

\* the value of a string of decimal digits
RECURSIVE DigitsValue(_)
DigitsValue(s) ==
    IF s = <<>> THEN 0
    ELSE 10 * DigitsValue(SubSeq(s, 1, Len(s) - 1)) + (s[Len(s)] - 48)

\* pd.to_datetime on one ISO cell "YYYY-MM-DD"
to_datetime(cell) ==
    [year  |-> DigitsValue(SubSeq(cell, 1, 4)),
     month |-> DigitsValue(SubSeq(cell, 6, 7)),
     day   |-> DigitsValue(SubSeq(cell, 9, 10))]

-----------------------------------------------------------------------------
(* Tables: [columns |-> sequence of column names, rows |-> sequence of records] *)

EmptyFrame == [columns |-> <<>>, rows |-> <<>>]

RawColumns == <<"dateprel", "nomcommuneprinc", "conclusionprel">>

RECURSIVE SeqSum(_)
SeqSum(s) == IF s = <<>> THEN 0 ELSE s[1] + SeqSum(Tail(s))

RECURSIVE SelectRows(_, _)
\* the rows of a sequence at which the mask holds, in order (boolean indexing)
SelectRows(rows, mask) ==
    IF rows = <<>> THEN <<>>
    ELSE (IF mask[1] THEN <<rows[1]>> ELSE <<>>)
         \o SelectRows(Tail(rows), Tail(mask))

\* the .str accessor raises AttributeError on a column read_csv inferred as
\* float64: one that has rows and whose every cell is missing
StrAccessorRaises(rows, col) ==
    rows # <<>> /\ \A i \in 1..Len(rows) : rows[i][col] = NaN

\* group keys in the order groupby(sort=True) emits them
KeyLess(a, b) ==
    \/ a.year < b.year
    \/ a.year = b.year /\ a.month < b.month
    \/ a.year = b.year /\ a.month = b.month
       /\ StrLess(a.nomcommuneprinc, b.nomcommuneprinc)

RECURSIVE SortKeys(_)
SortKeys(S) ==
    IF S = {} THEN <<>>
    ELSE LET m == CHOOSE k \in S : \A o \in S \ {k} : KeyLess(k, o)
         IN  <<m>> \o SortKeys(S \ {m})

KeyOf(r) == [year |-> r.year, month |-> r.month, nomcommuneprinc |-> r.nomcommuneprinc]

\* the group keys of groupby([...]) (dropna=True): a row with a missing key
\* is in no group
GroupKeys(rows) ==
    {KeyOf(rows[i]) : i \in {j \in 1..Len(rows) : rows[j].nomcommuneprinc # NaN}}

\* groupby(['year', 'month', 'nomcommuneprinc']).size().reset_index(name='count')
GroupBySize(rows) ==
    LET keys == SortKeys(GroupKeys(rows))
    IN  [columns |-> <<"year", "month", "nomcommuneprinc", "count">>,
         rows |-> [g \in 1..Len(keys) |->
                     [year |-> keys[g].year, month |-> keys[g].month,
                      nomcommuneprinc |-> keys[g].nomcommuneprinc,
                      count |-> Cardinality({i \in 1..Len(rows) :
                                               KeyOf(rows[i]) = keys[g]})]]]

\* process_dataframe: the table object after the call, whether the call
\* raised, and the value returned
process_dataframe(t) ==
    LET n == Len(t.rows)
        cols == t.columns \o <<"month", "year">>
        \* lines 20-22
        dated == [i \in 1..n |->
                    LET d == to_datetime(t.rows[i].dateprel)
                    IN  [dateprel |-> d,
                         nomcommuneprinc |-> t.rows[i].nomcommuneprinc,
                         conclusionprel |-> t.rows[i].conclusionprel,
                         month |-> d.month, year |-> d.year]]
        \* line 23
        upped == [i \in 1..n |->
                    [dated[i] EXCEPT !.nomcommuneprinc = str_upper(@)]]
        \* line 24
        mask == [i \in 1..n |-> str_contains(upped[i].conclusionprel)]
        filtered == SelectRows(upped, mask)
    IN  IF StrAccessorRaises(t.rows, "nomcommuneprinc")
        THEN [df |-> [columns |-> cols, rows |-> dated], raised |-> TRUE,
              result |-> EmptyFrame]
        ELSE IF StrAccessorRaises(t.rows, "conclusionprel")
        THEN [df |-> [columns |-> cols, rows |-> upped], raised |-> TRUE,
              result |-> EmptyFrame]
        ELSE [df |-> [columns |-> cols, rows |-> upped], raised |-> FALSE,
              result |-> GroupBySize(filtered)]

-----------------------------------------------------------------------------
(* Inputs *)

\* dateprel cells: "2016-03-15", "2017-07-02"
Date2016Mar == <<50, 48, 49, 54, 45, 48, 51, 45, 49, 53>>
Date2017Jul == <<50, 48, 49, 55, 45, 48, 55, 45, 48, 50>>

\* commune names: "Evisa" with E-acute, "Ota", "Zonza"
Evisa == <<201, 118, 105, 115, 97>>
Ota == <<79, 116, 97>>
Zonza == <<90, 111, 110, 122, 97>>

\* conclusionprel cells
ConclNonConforme1 == Phrase1 \o <<32, 97, 117, 120, 32, 108, 105, 109, 105, 116, 101, 115>>  \* Phrase1 + " aux limites"
ConclNonConforme2 == Phrase2
ConclConforme == <<69, 97, 117, 32, 99, 111, 110, 102, 111, 114, 109, 101>>  \* "Eau conforme"
ConclLowerCase == <<101>> \o Tail(Phrase1)  \* Phrase1 with a small initial e

Row(d, c, t) == [dateprel |-> d, nomcommuneprinc |-> c, conclusionprel |-> t]

\* the rows a call of process_dataframe is tried on
SampleRows ==
    {Row(d, c, t) : d \in {Date2016Mar, Date2017Jul},
                    c \in {Evisa, Ota, Zonza, NaN},
                    t \in {ConclNonConforme1, ConclNonConforme2, ConclConforme,
                           ConclLowerCase, NaN}}

\* the rows the files of ./dataset are made of
DatasetRows ==
    {Row(Date2016Mar, Evisa, ConclNonConforme1),
     Row(Date2016Mar, Ota, ConclNonConforme2),
     Row(Date2017Jul, Zonza, ConclNonConforme1),
     Row(Date2017Jul, NaN, ConclNonConforme1),
     Row(Date2016Mar, Ota, ConclConforme),
     Row(Date2016Mar, Evisa, NaN)}

\* pd.read_csv: the tables of at most MaxRows rows over a set of rows
Frames(S) ==
    {[columns |-> RawColumns, rows |-> r] :
        r \in UNION {[1..n -> S] : n \in 0..MaxRows}}

\* the 'nom' properties of communes-corse.geojson, in file order
GeoFeatures == <<Ota, Zonza, Evisa>>

-----------------------------------------------------------------------------
(* process_dataframe on its own *)

Unbound == EmptyFrame

InitCall ==
    /\ pc = "call"
    /\ df \in Frames(SampleRows)
    /\ df_arg = df
    /\ df_yearly = Unbound
    /\ year = FirstYear
    /\ nfiles = 0
    /\ df_combined = EmptyFrame
    /\ nMatching = 0
    /\ heatmap_data = Unbound
    /\ yticklabels = <<>>
    /\ commune_counts = Unbound
    /\ gdf = Unbound
    /\ merged_df = Unbound
    /\ top_tier_value = NaN
    /\ color = <<>>

ProcessDataframe ==
    /\ pc = "call"
    /\ LET r == process_dataframe(df)
       IN  /\ df' = r.df
           /\ df_yearly' = r.result
           /\ pc' = IF r.raised THEN "raised" ELSE "returned"
    /\ UNCHANGED <<year, nfiles, df_combined, nMatching, df_arg, heatmap_data,
                   yticklabels, commune_counts, gdf, merged_df, top_tier_value,
                   color>>

NextCall == ProcessDataframe

SpecCall == InitCall /\ [][NextCall]_vars

-----------------------------------------------------------------------------
(* load_and_process_data *)

LastYear == FirstYear + NumYears - 1

\* pd.concat([a, b]): the rows of a, then the rows of b
concat(a, b) ==
    [columns |-> IF a.columns = <<>> THEN b.columns ELSE a.columns,
     rows |-> a.rows \o b.rows]

NumMatching(rows) ==
    Cardinality({i \in 1..Len(rows) : str_contains(rows[i].conclusionprel)})

-----------------------------------------------------------------------------
(* create_heatmap *)

RECURSIVE SortInts(_)
SortInts(S) ==
    IF S = {} THEN <<>>
    ELSE LET m == CHOOSE k \in S : \A o \in S : k <= o
         IN  <<m>> \o SortInts(S \ {m})

\* variant: the number of rows of the group, agg 'size'
AggSize(rows) == Len(rows)

\* agg({'count': 'sum'}) over the rows of one group
AggSum(rows) == SeqSum([i \in 1..Len(rows) |-> rows[i].count])

\* df.groupby(['year', 'month']).agg({'count': 'sum'}).reset_index()
GroupByYearMonth(t) ==
    LET n == Len(t.rows)
        years == SortInts({t.rows[i].year : i \in 1..n})
        pairs == {<<t.rows[i].year, t.rows[i].month>> : i \in 1..n}
        MonthsOf(y) == SortInts({p[2] : p \in {q \in pairs : q[1] = y}})
        RECURSIVE Emit(_)
        Emit(ys) ==
            IF ys = <<>> THEN <<>>
            ELSE LET ms == MonthsOf(ys[1])
                 IN  [k \in 1..Len(ms) |->
                        [year |-> ys[1], month |-> ms[k],
                         count |-> AggSum(SelectRows(t.rows,
                                     [i \in 1..n |-> t.rows[i].year = ys[1]
                                                     /\ t.rows[i].month = ms[k]]))]]
                     \o Emit(Tail(ys))
    IN  [columns |-> <<"year", "month", "count">>, rows |-> Emit(years)]

\* heatmap_df.pivot(index="month", columns="year", values="count"): a cell
\* no row of heatmap_df falls in is NaN
pivot(t) ==
    LET n == Len(t.rows)
        index == SortInts({t.rows[i].month : i \in 1..n})
        columns == SortInts({t.rows[i].year : i \in 1..n})
    IN  [index |-> index, columns |-> columns,
         values |-> [i \in 1..Len(index) |-> [j \in 1..Len(columns) |->
            LET hit == {k \in 1..n : t.rows[k].month = index[i]
                                     /\ t.rows[k].year = columns[j]}
            IN  IF hit = {} THEN NaN
                ELSE <<t.rows[CHOOSE k \in hit : TRUE].count>>]]]

\* 'Jan', 'Fev', 'Mar', 'Avr', 'Mai', 'Juin', 'Juil', 'Aout', 'Sep', 'Oct',
\* 'Nov', 'Dec' (with the accents of the source: e-acute 233, u-circumflex 251)
MonthLabels ==
    << <<74, 97, 110>>, <<70, 233, 118>>, <<77, 97, 114>>, <<65, 118, 114>>,
       <<77, 97, 105>>, <<74, 117, 105, 110>>, <<74, 117, 105, 108>>,
       <<65, 111, 251, 116>>, <<83, 101, 112>>, <<79, 99, 116>>,
       <<78, 111, 118>>, <<68, 233, 99>> >>

\* plt.yticks(ticks=range(0, 12), labels=[...]): the label at tick position
\* p (0..11), which is where grid row p + 1 starts, is the (p + 1)-th label
yticks == [p \in 1..12 |-> MonthLabels[p]]

-----------------------------------------------------------------------------
(* create_barplot *)

\* df.groupby('nomcommuneprinc').agg({'count': 'sum'}).reset_index()
GroupByCommune(t) ==
    LET n == Len(t.rows)
        names == {t.rows[i].nomcommuneprinc : i \in 1..n}
        RECURSIVE SortNames(_)
        SortNames(S) ==
            IF S = {} THEN <<>>
            ELSE LET m == CHOOSE k \in S : \A o \in S \ {k} : StrLess(k, o)
                 IN  <<m>> \o SortNames(S \ {m})
        sorted == SortNames(names)
    IN  [columns |-> <<"nomcommuneprinc", "count">>,
         rows |-> [g \in 1..Len(sorted) |->
                     [nomcommuneprinc |-> sorted[g],
                      count |-> AggSum(SelectRows(t.rows,
                                  [i \in 1..n |-> t.rows[i].nomcommuneprinc = sorted[g]]))]]]

Reorder(rows, p) == [i \in 1..Len(rows) |-> rows[p[i]]]

\* variant: ascending=True
SortValuesAscending(rows) ==
    {Reorder(rows, p) : p \in {q \in Permutations(1..Len(rows)) :
        \A i \in 1..(Len(rows) - 1) : rows[q[i]].count <= rows[q[i + 1]].count}}

\* sort_values('count', ascending=False): the default kind is quicksort, which
\* is not stable, so every non-increasing order of the rows is a possible
\* result
sort_values(rows) ==
    {Reorder(rows, p) : p \in {q \in Permutations(1..Len(rows)) :
        \A i \in 1..(Len(rows) - 1) : rows[q[i]].count >= rows[q[i + 1]].count}}

-----------------------------------------------------------------------------
(* create_choropleth *)

\* gdf.merge(df, left_on='nom', right_on='nomcommuneprinc', how='left'):
\* for every left row in order, one row per right row of equal key, or one
\* row with missing right columns
RECURSIVE merge(_, _)
merge(left, right) ==
    IF left = <<>> THEN <<>>
    ELSE LET hits == SelectRows(right,
                        [k \in 1..Len(right) |-> right[k].nomcommuneprinc = left[1].nom])
         IN  (IF hits = <<>>
              THEN << [nom |-> left[1].nom, nomcommuneprinc |-> NaN, count |-> NaN] >>
              ELSE [k \in 1..Len(hits) |->
                      [nom |-> left[1].nom,
                       nomcommuneprinc |-> hits[k].nomcommuneprinc,
                       count |-> <<hits[k].count>>]])
             \o merge(Tail(left), right)

\* variant: the fill has no effect on the table
FillNothing(rows) == rows

\* merged_df['count'].fillna(0, inplace=True): the column selected is a view
\* of the table (pandas without copy-on-write), so the fill reaches merged_df
fillna(rows) ==
    [i \in 1..Len(rows) |->
        [rows[i] EXCEPT !.count = IF @ = NaN THEN <<0>> ELSE @]]

\* the cells of a float column that are not missing, as numbers
NotNa(cells) ==
    LET kept == SelectRows(cells, [i \in 1..Len(cells) |-> cells[i] # NaN])
    IN  [i \in 1..Len(kept) |-> kept[i][1]]

\* variant: the largest value, quantile(1.0)
QuantileMax(cells) ==
    LET values == NotNa(cells)
    IN  IF values = <<>> THEN NaN
        ELSE << QuantDen * (CHOOSE x \in {values[i] : i \in 1..Len(values)} :
                               \A i \in 1..Len(values) : values[i] <= x) >>

\* Series.quantile(0.95) on a float column: missing cells are skipped, the
\* result is missing when nothing is left, and else it is the linear
\* interpolation between the two order statistics around position
\* 0.95 * (n - 1), here in units of 1/QuantDen
quantile(cells) ==
    LET values == NotNa(cells)
        n == Len(values)
        \* the values in non-decreasing order, ties told apart by position
        tagged == SortInts({values[i] * (n + 1) + i : i \in 1..n})
        v == [i \in 1..n |-> tagged[i] \div (n + 1)]
        pos == QuantNum * (n - 1)
        k == pos \div QuantDen
        r == pos % QuantDen
    IN  IF n = 0 THEN NaN
        ELSE IF r = 0 THEN << QuantDen * v[k + 1] >>
        ELSE << QuantDen * v[k + 1] + r * (v[k + 2] - v[k + 1]) >>

\* the position, as <<numerator, denominator>>, of a count cell on the
\* continuous colour scale under range_color=(0, top_tier_value): linear from
\* 0 to the cap and clamped at the top; an empty range is widened by 1/2 on
\* both sides; a missing cell has no colour
ColorPosition(cell, cap) ==
    IF cell = NaN \/ cap = NaN THEN NaN
    ELSE IF cap[1] = 0 THEN (IF cell[1] = 0 THEN <<1, 2>> ELSE <<2, 2>>)
    ELSE IF QuantDen * cell[1] >= cap[1] THEN <<cap[1], cap[1]>>
    ELSE <<QuantDen * cell[1], cap[1]>>

-----------------------------------------------------------------------------
(* The program *)

Init ==
    /\ pc = "load"
    /\ year = FirstYear
    /\ nfiles = 0
    /\ df_combined = EmptyFrame
    /\ nMatching = 0
    /\ df_arg = Unbound
    /\ df = Unbound
    /\ df_yearly = Unbound
    /\ heatmap_data = Unbound
    /\ yticklabels = <<>>
    /\ commune_counts = Unbound
    /\ gdf = Unbound
    /\ merged_df = Unbound
    /\ top_tier_value = NaN
    /\ color = <<>>

\* lines 32-33 on every file the dataset may hold: whether process_dataframe
\* raises, the table it returns, and how many rows of the file hold a target
\* phrase
FileOutcomes ==
    {[raised |-> process_dataframe(f).raised,
      df_yearly |-> process_dataframe(f).result,
      matching |-> NumMatching(f.rows)] : f \in Frames(DatasetRows)}

\* one iteration of the inner loop, lines 32-34: a file of the current year
\* is read, processed and appended
LoadFile ==
    /\ pc = "load"
    /\ year <= LastYear
    /\ nfiles < MaxFiles
    /\ \E o \in FileOutcomes :
          /\ ~o.raised
          /\ df_combined' = concat(df_combined, o.df_yearly)
          /\ nMatching' = nMatching + o.matching
    /\ nfiles' = nfiles + 1
    /\ UNCHANGED <<pc, year, df_arg, df, df_yearly, heatmap_data, yticklabels,
                   commune_counts, gdf, merged_df, top_tier_value, color>>

\* the same iteration when process_dataframe raises: the run aborts
LoadFileRaises ==
    /\ pc = "load"
    /\ year <= LastYear
    /\ nfiles < MaxFiles
    /\ \E o \in FileOutcomes : o.raised
    /\ pc' = "error"
    /\ UNCHANGED <<year, nfiles, df_combined, nMatching, df_arg, df, df_yearly,
                   heatmap_data, yticklabels, commune_counts, gdf, merged_df,
                   top_tier_value, color>>

\* glob has no more file for this year: the outer loop moves on
NextYear ==
    /\ pc = "load"
    /\ year <= LastYear
    /\ year' = year + 1
    /\ UNCHANGED <<pc, nfiles, df_combined, nMatching, df_arg, df, df_yearly,
                   heatmap_data, yticklabels, commune_counts, gdf, merged_df,
                   top_tier_value, color>>

\* line 35, then line 137
ReturnCombined ==
    /\ pc = "load"
    /\ year > LastYear
    /\ pc' = "heatmap"
    /\ UNCHANGED <<year, nfiles, df_combined, nMatching, df_arg, df, df_yearly,
                   heatmap_data, yticklabels, commune_counts, gdf, merged_df,
                   top_tier_value, color>>

\* create_heatmap on a table with rows
CreateHeatmap ==
    /\ pc = "heatmap"
    /\ df_combined.rows # <<>>
    /\ heatmap_data' = pivot(GroupByYearMonth(df_combined))
    /\ yticklabels' = yticks
    /\ pc' = "barplot"
    /\ UNCHANGED <<year, nfiles, df_combined, nMatching, df_arg, df, df_yearly,
                   commune_counts, gdf, merged_df, top_tier_value, color>>

\* create_heatmap on a table without rows: groupby raises KeyError when no
\* file was read, and sns.heatmap raises ValueError on an empty grid
CreateHeatmapRaises ==
    /\ pc = "heatmap"
    /\ df_combined.rows = <<>>
    /\ pc' = "error"
    /\ UNCHANGED <<year, nfiles, df_combined, nMatching, df_arg, df, df_yearly,
                   heatmap_data, yticklabels, commune_counts, gdf, merged_df,
                   top_tier_value, color>>

CreateBarplot ==
    /\ pc = "barplot"
    /\ \E sorted \in sort_values(GroupByCommune(df_combined).rows) :
          commune_counts' = [columns |-> <<"nomcommuneprinc", "count">>,
                             rows |-> sorted]
    /\ pc' = "read_geo"
    /\ UNCHANGED <<year, nfiles, df_combined, nMatching, df_arg, df, df_yearly,
                   heatmap_data, yticklabels, gdf, merged_df, top_tier_value,
                   color>>

\* lines 140-141: the boundary file holds the first n features
ReadGeo ==
    /\ pc = "read_geo"
    /\ \E n \in 1..Len(GeoFeatures) :
          gdf' = [columns |-> <<"nom">>,
                  rows |-> [i \in 1..n |->
                              [nom |-> remove_accents_and_uppercase(GeoFeatures[i])]]]
    /\ pc' = "choropleth"
    /\ UNCHANGED <<year, nfiles, df_combined, nMatching, df_arg, df, df_yearly,
                   heatmap_data, yticklabels, commune_counts, merged_df,
                   top_tier_value, color>>

CreateChoropleth ==
    /\ pc = "choropleth"
    /\ LET m == fillna(merge(gdf.rows, commune_counts.rows))
           q == quantile([i \in 1..Len(m) |-> m[i].count])
       IN  /\ merged_df' = [columns |-> <<"nom", "nomcommuneprinc", "count">>,
                            rows |-> m]
           /\ top_tier_value' = q
           /\ color' = [i \in 1..Len(m) |-> ColorPosition(m[i].count, q)]
    /\ pc' = "done"
    /\ UNCHANGED <<year, nfiles, df_combined, nMatching, df_arg, df, df_yearly,
                   heatmap_data, yticklabels, commune_counts, gdf>>

Next ==
    \/ LoadFile
    \/ LoadFileRaises
    \/ NextYear
    \/ ReturnCombined
    \/ CreateHeatmap
    \/ CreateHeatmapRaises
    \/ CreateBarplot
    \/ ReadGeo
    \/ CreateChoropleth

Spec == Init /\ [][Next]_vars

-----------------------------------------------------------------------------
(* Properties of process_dataframe, checked under SpecCall *)

\* the group a raw row belongs to: year and month of its date, commune in
\* upper case
RawKey(r) ==
    [year |-> to_datetime(r.dateprel).year,
     month |-> to_datetime(r.dateprel).month,
     nomcommuneprinc |-> str_upper(r.nomcommuneprinc)]

\* C1: when process_dataframe returns, every row of the table passed in whose
\* conclusion holds a target phrase is counted in exactly one (year, month,
\* commune) group, and the rows without a phrase are counted in none: each
\* group's count is the number of phrase-holding rows of its key.
C1_MatchingRowInOneGroup ==
    pc = "returned" =>
        LET raw == df_arg.rows
            out == df_yearly.rows
            hits == {i \in 1..Len(raw) : str_contains(raw[i].conclusionprel)}
        IN  /\ \A i \in hits :
                 Cardinality({g \in 1..Len(out) : KeyOf(out[g]) = RawKey(raw[i])}) = 1
            /\ \A g \in 1..Len(out) :
                 out[g].count =
                    Cardinality({i \in hits : RawKey(raw[i]) = KeyOf(out[g])})

\* C10: after the call the table passed to process_dataframe has the columns
\* and the cell values it had before the call.
C10_ArgumentUntouched ==
    pc \in {"returned", "raised"} =>
        /\ df.columns = df_arg.columns
        /\ df.rows = df_arg.rows

-----------------------------------------------------------------------------
(* Properties of the pipeline, checked under Spec *)

Loaded == pc \in {"heatmap", "barplot", "read_geo", "choropleth", "done"}
HeatmapDone == pc \in {"barplot", "read_geo", "choropleth", "done"}
BarplotDone == pc \in {"read_geo", "choropleth", "done"}

Counts(rows) == [i \in 1..Len(rows) |-> rows[i].count]

\* C2: the counts of the combined table add up to the number of raw rows
\* read whose conclusion holds a target phrase.
C2_CountPreserving ==
    Loaded => SeqSum(Counts(df_combined.rows)) = nMatching

\* C3: the combined table has at most one row per (year, month, commune).
C3_OneRowPerKey ==
    Loaded =>
        \A i, j \in 1..Len(df_combined.rows) :
            i # j => KeyOf(df_combined.rows[i]) # KeyOf(df_combined.rows[j])

\* C4: a joined boundary row whose name equals a sample commune's name after
\* accent removal and uppercasing carries that commune's total count.
C4_JoinOnNormalizedName ==
    pc = "done" =>
        \A b \in 1..Len(merged_df.rows), c \in 1..Len(commune_counts.rows) :
            remove_accents_and_uppercase(commune_counts.rows[c].nomcommuneprinc)
                = merged_df.rows[b].nom
            => merged_df.rows[b].count = <<commune_counts.rows[c].count>>

NonIncreasing(rows) ==
    \A i \in 1..(Len(rows) - 1) : rows[i].count >= rows[i + 1].count

\* the total of a commune over the combined table
TotalOf(name) ==
    SeqSum([i \in 1..Len(df_combined.rows) |->
              IF df_combined.rows[i].nomcommuneprinc = name
              THEN df_combined.rows[i].count ELSE 0])

\* C6 (as amended): the ranked table is non-increasing by total count and
\* holds every commune of the combined table once, with its total; the order
\* of communes with equal totals is not determined.
C6_RankedNonIncreasing ==
    BarplotDone =>
        LET r == commune_counts.rows
        IN  /\ NonIncreasing(r)
            /\ \A i, j \in 1..Len(r) :
                  i # j => r[i].nomcommuneprinc # r[j].nomcommuneprinc
            /\ {r[i].nomcommuneprinc : i \in 1..Len(r)}
                  = {df_combined.rows[i].nomcommuneprinc :
                        i \in 1..Len(df_combined.rows)}
            /\ \A i \in 1..Len(r) : r[i].count = TotalOf(r[i].nomcommuneprinc)

\* C6 (as stated): the ranked table is non-increasing by total count and
\* communes with equal totals are in the order the grouping produced them,
\* which is the order of their names.
C6_RankedStable ==
    BarplotDone =>
        LET r == commune_counts.rows
        IN  /\ NonIncreasing(r)
            /\ \A i, j \in 1..Len(r) :
                  (i < j /\ r[i].count = r[j].count)
                  => StrLess(r[i].nomcommuneprinc, r[j].nomcommuneprinc)

C6_Witness ==
    /\ pc = "read_geo"
    /\ LET r == commune_counts.rows
       IN  /\ Len(r) >= 3
           /\ \E i \in 1..(Len(r) - 1) : r[i].count > r[i + 1].count
           /\ \E i \in 1..(Len(r) - 1) : r[i].count = r[i + 1].count

\* the years and months a sample can fall in
Months == 1..12
DataYears ==
    {to_datetime(r.dateprel).year : r \in DatasetRows} \cup FirstYear..LastYear

Position(seq, x) == CHOOSE i \in 1..Len(seq) : seq[i] = x

\* the grid cell of month m and year y; a pair outside the grid is blank
GridCell(m, y) ==
    IF (\E i \in 1..Len(heatmap_data.index) : heatmap_data.index[i] = m)
       /\ (\E j \in 1..Len(heatmap_data.columns) : heatmap_data.columns[j] = y)
    THEN heatmap_data.values[Position(heatmap_data.index, m)]
                            [Position(heatmap_data.columns, y)]
    ELSE NaN

\* C7: the grid cell of month m and year y is the sum of the counts of all
\* rows of the combined table with that year and month, and is blank when
\* there is no such row.
C7_HeatmapCells ==
    HeatmapDone =>
        \A m \in Months, y \in DataYears :
            LET rows == SelectRows(df_combined.rows,
                           [i \in 1..Len(df_combined.rows) |->
                               df_combined.rows[i].year = y
                               /\ df_combined.rows[i].month = m])
            IN  GridCell(m, y) =
                    IF rows = <<>> THEN NaN ELSE <<SeqSum(Counts(rows))>>

C7_Witness ==
    /\ pc = "barplot"
    /\ \E i \in 1..Len(heatmap_data.index), j \in 1..Len(heatmap_data.columns) :
          heatmap_data.values[i][j] = NaN
    /\ \E i, j \in 1..Len(df_combined.rows) :
          /\ i # j
          /\ KeyOf(df_combined.rows[i]) = KeyOf(df_combined.rows[j])
          /\ df_combined.rows[i].count > 1

\* the k-th smallest of a sequence of numbers, by counting
OrderStatistic(values, k) ==
    CHOOSE x \in {values[i] : i \in 1..Len(values)} :
        /\ Cardinality({i \in 1..Len(values) : values[i] < x}) < k
        /\ Cardinality({i \in 1..Len(values) : values[i] <= x}) >= k

JoinedCounts == [i \in 1..Len(merged_df.rows) |-> merged_df.rows[i].count[1]]

C9_RowLabelIsMonth ==
    HeatmapDone =>
        \A i \in 1..Len(heatmap_data.index) :
            yticklabels[i] = MonthLabels[heatmap_data.index[i]]

====
